---------------------------- MODULE Spec2Model ----------------------------
(* A model of src/src/input.c, the stdio-like input object of alsa-lib:   *)
(* a handle (snd_input_t) backed either by a stdio FILE or by an owned    *)
(* copy of a memory buffer, with close/gets/getc/ungetc dispatched        *)
(* through the handle's operation table.                                  *)
EXTENDS Integers, Sequences, FiniteSets, TLC

(***************************************************************************)
(* Bounds of the model.                                                    *)
(***************************************************************************)
\* longest source text handed to snd_input_buffer_open
MaxLen == 3
\* the same, where several handles are open at once
MaxLenTwo == 2
\* largest `size` argument handed to snd_input_gets
MaxSize == 3

(***************************************************************************)
(* Program constants.                                                      *)
(***************************************************************************)
\* EOF of <stdio.h>, returned by snd_input_buffer_getc / _ungetc
EOF == -1
\* '\n', the byte snd_input_buffer_gets stops after
NEWLINE == 10
\* modulus of the (unsigned char) conversion
UCHAR_MOD == 256
\* largest value of the size_t parameter `size` of snd_input_buffer_gets.
\* size_t is 32 or 64 bits wide on the builds of this file; the model keeps
\* 31 bits, the widest the checker's integers hold.  The code only compares
\* the wrapped value with 0 and counts down from it.
SIZE_MAX == 2147483647

\* ENOMEM of <errno.h>, returned negated when calloc or malloc fails
ENOMEM == 12

\* values errno takes when fopen(3) fails in the model: ENOENT, EACCES
Errnos == {2, 13}
\* what vsscanf(3) and vfscanf(3) return in the model: EOF, or the number
\* of items assigned
ScanResults == {EOF, 0, 1}
\* what fclose(3) returns: 0, or EOF when it fails
FcloseResults == {0, EOF}

\* values of a (signed) char in the caller's source memory: NUL, '\n', 'a'
\* and the char 0xFF
SrcChars == {0, NEWLINE, 97, -1}
\* the chars of the source texts where several handles are open at once
TwoChars == {NEWLINE, 97}
\* the handles open at once
Handles == {1, 2}
\* the int arguments given to snd_input_ungetc
UngetArgs == {EOF, 0, NEWLINE, 97, 255}

VARIABLES
    ndebug,   \* whether the build defines NDEBUG (assert compiled out)
    pc,       \* "running", "aborted" (failed assert) or "crashed"
    input,    \* the handle: struct _snd_input, or NoInput
    buffer,   \* input->private_data of a buffer handle
    stdio,    \* input->private_data of a stdio handle
    fp,       \* the caller's FILE stream: "open" or "closed"
    src,      \* the memory the caller passed to snd_input_buffer_open
    osize,    \* the `size` the caller passed to snd_input_buffer_open
    last,     \* the last public call on the handle and what it did
    prev,     \* the call before it, when it is one a later call is compared with
    run,      \* what the calls since open delivered, while of one kind
    heap,     \* the live allocations: "input", "buffer", "buf", "stdio"
    rew,      \* reads since open and the push-backs undoing them in turn
    hs,       \* several handles open at once: handle number -> its state
    who       \* the handle of hs the last call was made on, and the call

vars == <<ndebug, pc, input, buffer, stdio, fp, src, osize, last, prev, run,
          heap, rew, hs, who>>

\* the variables of the handles open side by side
two == <<hs, who>>

(***************************************************************************)
(* Values.                                                                 *)
(***************************************************************************)
RECURSIVE SeqsUpTo(_, _)
SeqsUpTo(S, n) ==
    IF n = 0 THEN {<<>>}
    ELSE LET shorter == SeqsUpTo(S, n - 1)
         IN  shorter \cup {Append(s, x) : s \in {t \in shorter : Len(t) = n - 1}, x \in S}

\* (unsigned char) c
ToUChar(c) == c % UCHAR_MOD

\* --size on a size_t: size - 1 modulo SIZE_MAX + 1
DecSizeT(s) == IF s = 0 THEN SIZE_MAX ELSE s - 1

NoInput == [type |-> "NONE", ops |-> "NONE"]
NoBuffer == [buf |-> <<>>, ptr |-> 0, size |-> 0]
NoStdio == [close |-> FALSE]
NoPos == [ptr |-> 0, size |-> 0]
NoCall == [op |-> "none", be |-> "none", arg |-> 0, ret |-> 0, null |-> FALSE,
           pre |-> NoPos, post |-> NoPos, stores |-> <<>>, paired |-> FALSE,
           atEof |-> FALSE, events |-> <<>>]
NoHandle == [input |-> NoInput, buffer |-> NoBuffer, stdio |-> NoStdio]
NoWho == [h |-> 0, op |-> "none"]
NoRew == [phase |-> "none", k |-> 0, undone |-> 0, lines |-> FALSE]
NoRun == [kind |-> "none", size |-> 0, out |-> <<>>, n |-> 0, eof |-> FALSE]

Pos(b) == [ptr |-> b.ptr, size |-> b.size]

\* what a call does to memory and streams, in order: act is "alloc",
\* "fail" (an allocation or fopen that fails), "use" (a read of a field),
\* "free", "fopen", "fclose" or "return" (of the backend's close)
Event(act, obj, val) == [act |-> act, obj |-> obj, val |-> val]

\* the allocations a call leaves live, of those live before it
Live(before, events) ==
    (before \cup {events[i].obj : i \in {j \in 1..Len(events) : events[j].act = "alloc"}})
        \ {events[i].obj : i \in {j \in 1..Len(events) : events[j].act = "free"}}

BUFFER_OPS == "snd_input_buffer_ops"
STDIO_OPS == "snd_input_stdio_ops"

(***************************************************************************)
(* Buffer backend.  buf is the owned array (1-indexed here), ptr the       *)
(* offset buffer->ptr - buffer->buf, size the bytes left to read.          *)
(***************************************************************************)
\* strlen(3) on memory that holds a NUL
strlen(mem) ==
    CHOOSE n \in 0..(Len(mem) - 1) : mem[n + 1] = 0 /\ \A i \in 1..n : mem[i] # 0

\* the private data snd_input_buffer_open builds from (buf, size)
snd_input_buffer_open(mem, size) ==
    LET n == IF size < 0 THEN strlen(mem) ELSE size
        copied == [i \in 1..n |-> ToUChar(mem[i])]
    IN  [buf |-> Append(copied, 0), ptr |-> 0, size |-> n]

\* snd_input_buffer_open without the free(buffer) when calloc of input fails
buffer_open_allocs_leak(fail) ==
    CASE fail = 1 -> [ret |-> -ENOMEM, events |-> <<Event("fail", "buffer", 0)>>]
      [] fail = 2 -> [ret |-> -ENOMEM,
                      events |-> <<Event("alloc", "buffer", 0),
                                   Event("fail", "input", 0)>>]
      [] fail = 3 -> [ret |-> -ENOMEM,
                      events |-> <<Event("alloc", "buffer", 0),
                                   Event("alloc", "input", 0),
                                   Event("fail", "buf", 0),
                                   Event("free", "input", 0),
                                   Event("free", "buffer", 0)>>]
      [] OTHER -> [ret |-> 0,
                   events |-> <<Event("alloc", "buffer", 0),
                                Event("alloc", "input", 0),
                                Event("alloc", "buf", 0)>>]

\* the allocations of snd_input_buffer_open and its result; fail is the
\* allocation that fails: 1 calloc of buffer, 2 calloc of input, 3 malloc
\* of buffer->buf, 0 none
buffer_open_allocs(fail) ==
    CASE fail = 1 -> [ret |-> -ENOMEM, events |-> <<Event("fail", "buffer", 0)>>]
      [] fail = 2 -> [ret |-> -ENOMEM,
                      events |-> <<Event("alloc", "buffer", 0),
                                   Event("fail", "input", 0),
                                   Event("free", "buffer", 0)>>]
      [] fail = 3 -> [ret |-> -ENOMEM,
                      events |-> <<Event("alloc", "buffer", 0),
                                   Event("alloc", "input", 0),
                                   Event("fail", "buf", 0),
                                   Event("free", "input", 0),
                                   Event("free", "buffer", 0)>>]
      [] OTHER -> [ret |-> 0,
                   events |-> <<Event("alloc", "buffer", 0),
                                Event("alloc", "input", 0),
                                Event("alloc", "buf", 0)>>]

snd_input_buffer_close ==
    [ret |-> 0,
     events |-> <<Event("use", "input", 0), Event("use", "buffer", 0),
                  Event("free", "buf", 0), Event("free", "buffer", 0),
                  Event("return", "close", 0)>>]

\* snd_input_buffer_getc without the ptr++
getc_keeps_ptr(b) ==
    IF b.size = 0
    THEN [buffer |-> b, ret |-> EOF]
    ELSE [buffer |-> [b EXCEPT !.size = @ - 1], ret |-> b.buf[b.ptr + 1]]

\* snd_input_buffer_getc stepping over the byte at ptr when nothing is left
getc_eof_advances(b) ==
    IF b.size = 0
    THEN [buffer |-> [b EXCEPT !.ptr = @ + 1], ret |-> EOF]
    ELSE [buffer |-> [b EXCEPT !.size = @ - 1, !.ptr = @ + 1],
          ret |-> b.buf[b.ptr + 1]]

snd_input_buffer_getc(b) ==
    IF b.size = 0
    THEN [buffer |-> b, ret |-> EOF]
    ELSE [buffer |-> [b EXCEPT !.size = @ - 1, !.ptr = @ + 1],
          ret |-> b.buf[b.ptr + 1]]

\* snd_input_buffer_ungetc without the buffer->size++
ungetc_keeps_size(b, c, nd) ==
    IF b.ptr = 0
    THEN [buffer |-> b, ret |-> EOF, aborted |-> FALSE]
    ELSE LET back == [b EXCEPT !.ptr = @ - 1]
         IN  IF ~nd /\ back.buf[back.ptr + 1] # ToUChar(c)
             THEN [buffer |-> back, ret |-> EOF, aborted |-> TRUE]
             ELSE [buffer |-> back, ret |-> c, aborted |-> FALSE]

\* snd_input_buffer_ungetc taking the byte after buf for the start
ungetc_start_off_by_one(b, c, nd) ==
    IF b.ptr <= 1
    THEN [buffer |-> b, ret |-> EOF, aborted |-> FALSE]
    ELSE LET back == [b EXCEPT !.ptr = @ - 1]
         IN  IF ~nd /\ back.buf[back.ptr + 1] # ToUChar(c)
             THEN [buffer |-> back, ret |-> EOF, aborted |-> TRUE]
             ELSE [buffer |-> [back EXCEPT !.size = @ + 1], ret |-> c,
                   aborted |-> FALSE]

\* snd_input_buffer_ungetc with the start-of-buffer test answering c
ungetc_start_ok(b, c, nd) ==
    IF b.ptr = 0
    THEN [buffer |-> b, ret |-> c, aborted |-> FALSE]
    ELSE LET back == [b EXCEPT !.ptr = @ - 1]
         IN  IF ~nd /\ back.buf[back.ptr + 1] # ToUChar(c)
             THEN [buffer |-> back, ret |-> EOF, aborted |-> TRUE]
             ELSE [buffer |-> [back EXCEPT !.size = @ + 1], ret |-> c,
                   aborted |-> FALSE]

\* nd: the build has NDEBUG, so the assert is compiled out
snd_input_buffer_ungetc(b, c, nd) ==
    IF b.ptr = 0
    THEN [buffer |-> b, ret |-> EOF, aborted |-> FALSE]
    ELSE LET back == [b EXCEPT !.ptr = @ - 1]
         IN  IF ~nd /\ back.buf[back.ptr + 1] # ToUChar(c)
             THEN [buffer |-> back, ret |-> EOF, aborted |-> TRUE]
             ELSE [buffer |-> [back EXCEPT !.size = @ + 1], ret |-> c,
                   aborted |-> FALSE]

\* the while loop of snd_input_buffer_gets without the break at '\n'
RECURSIVE gets_loop_no_break(_, _, _, _, _)
gets_loop_no_break(buf, ptr, size, bsize, out) ==
    LET size1 == DecSizeT(size)
    IN  IF size1 > 0 /\ bsize > 0
        THEN gets_loop_no_break(buf, ptr + 1, size1, bsize - 1,
                                Append(out, buf[ptr + 1]))
        ELSE [ptr |-> ptr, bsize |-> bsize, out |-> out]

\* the while loop of snd_input_buffer_gets: out is what *str++ = c stored
RECURSIVE gets_loop(_, _, _, _, _)
gets_loop(buf, ptr, size, bsize, out) ==
    LET size1 == DecSizeT(size)
    IN  IF size1 > 0 /\ bsize > 0
        THEN LET c == buf[ptr + 1]
             IN  IF c = NEWLINE
                 THEN [ptr |-> ptr + 1, bsize |-> bsize - 1, out |-> Append(out, c)]
                 ELSE gets_loop(buf, ptr + 1, size1, bsize - 1, Append(out, c))
        ELSE [ptr |-> ptr, bsize |-> bsize, out |-> out]

\* snd_input_buffer_gets with *str = '\0' moved before the NULL return
gets_terminates_first(b, size) ==
    LET l == gets_loop(b.buf, b.ptr, size, b.size, <<>>)
    IN  IF l.bsize = b.size
        THEN [buffer |-> [b EXCEPT !.ptr = l.ptr], null |-> TRUE, ret |-> 0,
              stores |-> Append(l.out, 0)]
        ELSE [buffer |-> [b EXCEPT !.ptr = l.ptr, !.size = l.bsize],
              null |-> FALSE, ret |-> Len(l.out), stores |-> Append(l.out, 0)]

\* snd_input_buffer_gets without the buffer->size = bsize
gets_keeps_size(b, size) ==
    LET l == gets_loop(b.buf, b.ptr, size, b.size, <<>>)
    IN  IF l.bsize = b.size
        THEN [buffer |-> [b EXCEPT !.ptr = l.ptr], null |-> TRUE, ret |-> 0,
              stores |-> l.out]
        ELSE [buffer |-> [b EXCEPT !.ptr = l.ptr],
              null |-> FALSE, ret |-> Len(l.out), stores |-> Append(l.out, 0)]

\* null: NULL is returned; ret: the returned pointer as an offset from the
\* caller's str; stores: the bytes stored at str[0], str[1], ...
snd_input_buffer_gets(b, size) ==
    LET l == gets_loop(b.buf, b.ptr, size, b.size, <<>>)
    IN  IF l.bsize = b.size
        THEN [buffer |-> [b EXCEPT !.ptr = l.ptr], null |-> TRUE, ret |-> 0,
              stores |-> l.out]
        ELSE [buffer |-> [b EXCEPT !.ptr = l.ptr, !.size = l.bsize],
              null |-> FALSE, ret |-> Len(l.out), stores |-> Append(l.out, 0)]

\* assert(0), then vsscanf on buffer->ptr; r is what vsscanf returns
snd_input_buffer_scanf(b, nd, r) ==
    IF ~nd
    THEN [buffer |-> b, ret |-> 0, aborted |-> TRUE]
    ELSE [buffer |-> b, ret |-> r, aborted |-> FALSE]

(***************************************************************************)
(* Stdio backend.                                                          *)
(***************************************************************************)
\* `close` in `if (close)` of snd_input_stdio_close is not stdio->close: the
\* function has no such local, so the name is close(2) of <unistd.h>, whose
\* address is never null
close_is_nonnull == TRUE

\* f: the state of stdio->fp, fcl: what fclose(3) returns if it is called;
\* the result holds the state of the stream afterwards
snd_input_stdio_close(st, f, fcl) ==
    [fp |-> IF close_is_nonnull THEN "closed" ELSE f,
     ret |-> 0,
     events |-> <<Event("use", "input", 0)>>
                \o (IF close_is_nonnull
                    THEN <<Event("use", "stdio", 0), Event("fclose", "fp", fcl)>>
                    ELSE <<>>)
                \o <<Event("free", "stdio", 0), Event("return", "close", 0)>>]

\* snd_input_close freeing the handle before it calls the backend's close
free_then_close(c) ==
    [ret |-> c.ret,
     events |-> <<Event("free", "input", 0), Event("use", "input", 0)>> \o c.events]

\* snd_input_close around the backend's close c
close_then_free(c) ==
    [ret |-> c.ret,
     events |-> <<Event("use", "input", 0)>> \o c.events
                \o <<Event("free", "input", 0)>>]

\* the allocations of snd_input_stdio_attach and its result; fail is the
\* allocation that fails: 1 calloc of stdio, 2 calloc of input, 0 none
stdio_attach_allocs(fail) ==
    CASE fail = 1 -> [ret |-> -ENOMEM, events |-> <<Event("fail", "stdio", 0)>>]
      [] fail = 2 -> [ret |-> -ENOMEM,
                      events |-> <<Event("alloc", "stdio", 0),
                                   Event("fail", "input", 0),
                                   Event("free", "stdio", 0)>>]
      [] OTHER -> [ret |-> 0,
                   events |-> <<Event("alloc", "stdio", 0),
                                Event("alloc", "input", 0)>>]

snd_input_stdio_attach(close) ==
    [input |-> [type |-> "SND_INPUT_STDIO", ops |-> STDIO_OPS],
     stdio |-> [close |-> close]]

\* snd_input_stdio_open without the fclose(fp) when the attach fails
stdio_open_keeps_fp(err, fail) ==
    IF err # 0
    THEN [ret |-> -err, fp |-> "closed", events |-> <<Event("fail", "fp", err)>>]
    ELSE LET a == stdio_attach_allocs(fail)
         IN  [ret |-> a.ret, fp |-> "open",
              events |-> <<Event("fopen", "fp", 0)>> \o a.events]

\* err: the errno of a failing fopen(3), 0 when it succeeds; fail: the
\* allocation of snd_input_stdio_attach that fails
snd_input_stdio_open(err, fail) ==
    IF err # 0
    THEN [ret |-> -err, fp |-> "closed", events |-> <<Event("fail", "fp", err)>>]
    ELSE LET a == stdio_attach_allocs(fail)
         IN  IF a.ret < 0
             THEN [ret |-> a.ret, fp |-> "closed",
                   events |-> <<Event("fopen", "fp", 0)>> \o a.events
                              \o <<Event("fclose", "fp", 0)>>]
             ELSE [ret |-> a.ret, fp |-> "open",
                   events |-> <<Event("fopen", "fp", 0)>> \o a.events]

(***************************************************************************)
(* History kept for the properties.                                        *)
(***************************************************************************)
\* the calls a following call is compared with: a read of a byte from a
\* buffer, a push-back of the byte the read before it returned, and a
\* push-back of the last byte that follows a read of EOF
Kept(call) ==
    IF call.be = "buffer"
       /\ (call.op = "getc" \/ (call.op = "ungetc" /\ (call.paired \/ call.atEof)))
    THEN call ELSE NoCall

Mixed == [NoRun EXCEPT !.kind = "mixed"]

RunGetc(r, ret) ==
    IF r.kind \notin {"fresh", "getc"} THEN Mixed
    ELSE IF r.eof THEN r
    ELSE [kind |-> "getc", size |-> 0, n |-> r.n + 1, eof |-> (ret = EOF),
          out |-> IF ret = EOF THEN r.out ELSE Append(r.out, ret)]

RunGets(r, size, g) ==
    IF ~(r.kind = "fresh" \/ (r.kind = "gets" /\ r.size = size)) THEN Mixed
    ELSE IF r.eof THEN r
    ELSE [kind |-> "gets", size |-> size, n |-> r.n + 1, eof |-> g.null,
          out |-> IF g.null THEN r.out
                  ELSE r.out \o SubSeq(g.stores, 1, Len(g.stores) - 1)]

Broken == [NoRew EXCEPT !.phase = "broken"]

\* a read that consumed n bytes; lines: it was a gets
RewRead(r, n, lines) ==
    IF r.phase = "reading"
    THEN [r EXCEPT !.k = @ + n, !.lines = @ \/ (lines /\ n > 0)]
    ELSE Broken

\* an ungetc(c) on the array buf: while reads are left to undo it counts
\* when c is the byte consumed last of those left; the one after they are
\* all undone ends the history
RewUnget(r, c, buf) ==
    IF r.phase \notin {"reading", "rewinding"} THEN Broken
    ELSE IF r.undone = r.k THEN [r EXCEPT !.phase = "over"]
    ELSE IF c = buf[r.k - r.undone]
         THEN [r EXCEPT !.phase = "rewinding", !.undone = @ + 1]
         ELSE Broken

(***************************************************************************)
(* The program.                                                            *)
(***************************************************************************)
Init ==
    /\ ndebug \in BOOLEAN
    /\ pc = "running"
    /\ input = NoInput
    /\ buffer = NoBuffer
    /\ stdio = NoStdio
    /\ fp = "closed"
    /\ src = <<>>
    /\ osize = 0
    /\ last = NoCall
    /\ prev = NoCall
    /\ run = NoRun
    /\ heap = {}
    /\ rew = NoRew
    /\ hs = [i \in Handles |-> NoHandle]
    /\ who = NoWho

\* the `size` arguments given with text: -1, all of it, and all but its
\* last char
OpenSizes(text) == {-1, Len(text)} \cup {n \in {Len(text) - 1} : n >= 0}

\* the caller opens a stream of its own with fopen(3)
CallerFopen ==
    /\ pc = "running" /\ input = NoInput /\ fp = "closed"
    /\ fp' = "open"
    /\ last' = NoCall /\ prev' = NoCall
    /\ UNCHANGED two
    /\ UNCHANGED <<ndebug, pc, input, buffer, stdio, src, osize, run, heap, rew>>

StdioAttach ==
    /\ pc = "running" /\ input = NoInput /\ fp = "open"
    /\ \E close \in BOOLEAN, fail \in 0..2 :
          LET m == stdio_attach_allocs(fail)
              a == snd_input_stdio_attach(close)
          IN  /\ input' = IF m.ret < 0 THEN input ELSE a.input
              /\ stdio' = IF m.ret < 0 THEN stdio ELSE a.stdio
              /\ heap' = Live(heap, m.events)
              /\ last' = [NoCall EXCEPT !.op = "attach", !.be = "stdio",
                             !.arg = IF close THEN 1 ELSE 0,
                             !.ret = m.ret, !.events = m.events]
    /\ prev' = NoCall
    /\ UNCHANGED two
    /\ UNCHANGED <<ndebug, pc, buffer, fp, src, osize, run, rew>>

\* snd_input_stdio_open on a path the caller names
StdioOpen ==
    /\ pc = "running" /\ input = NoInput /\ fp = "closed"
    /\ \E err \in {0} \cup Errnos, fail \in 0..2 :
          LET o == snd_input_stdio_open(err, fail)
              a == snd_input_stdio_attach(TRUE)
          IN  /\ input' = IF o.ret < 0 THEN input ELSE a.input
              /\ stdio' = IF o.ret < 0 THEN stdio ELSE a.stdio
              /\ fp' = o.fp
              /\ heap' = Live(heap, o.events)
              /\ last' = [NoCall EXCEPT !.op = "stdio_open", !.be = "stdio",
                             !.ret = o.ret, !.events = o.events]
    /\ prev' = NoCall
    /\ UNCHANGED two
    /\ UNCHANGED <<ndebug, pc, buffer, src, osize, run, rew>>

BufferOpen ==
    /\ pc = "running" /\ input = NoInput
    /\ \/ \E text \in SeqsUpTo(SrcChars, MaxLen) :
          \E size \in OpenSizes(text) :
             LET mem == Append(text, 0)
                 m == buffer_open_allocs(0)
             IN  /\ buffer' = snd_input_buffer_open(mem, size)
                 /\ src' = mem
                 /\ osize' = size
                 /\ heap' = Live(heap, m.events)
                 /\ last' = [NoCall EXCEPT !.op = "open", !.be = "buffer",
                                !.ret = m.ret, !.events = m.events]
                 /\ input' = [type |-> "SND_INPUT_BUFFER", ops |-> BUFFER_OPS]
                 /\ run' = [NoRun EXCEPT !.kind = "fresh"]
                 /\ rew' = [NoRew EXCEPT !.phase = "reading"]
       \/ \E fail \in 1..3 :
             LET m == buffer_open_allocs(fail)
             IN  /\ heap' = Live(heap, m.events)
                 /\ last' = [NoCall EXCEPT !.op = "open", !.be = "buffer",
                                !.ret = m.ret, !.events = m.events]
                 /\ UNCHANGED <<input, buffer, src, osize, run, rew>>
    /\ prev' = NoCall
    /\ UNCHANGED two
    /\ UNCHANGED <<ndebug, pc, stdio, fp>>

snd_input_getc ==
    /\ pc = "running" /\ input # NoInput
    /\ \/ /\ input.ops = BUFFER_OPS
          /\ LET g == snd_input_buffer_getc(buffer)
             IN  /\ buffer' = g.buffer
                 /\ last' = [NoCall EXCEPT !.op = "getc", !.be = "buffer",
                                !.ret = g.ret, !.pre = Pos(buffer),
                                !.post = Pos(g.buffer)]
                 /\ run' = RunGetc(run, g.ret)
                 /\ rew' = RewRead(rew, g.buffer.ptr - buffer.ptr, FALSE)
       \/ /\ input.ops = STDIO_OPS
          /\ \E r \in {EOF, 97} :
                last' = [NoCall EXCEPT !.op = "getc", !.be = "stdio", !.ret = r]
          /\ UNCHANGED <<buffer, run, rew>>
    /\ prev' = Kept(last)
    /\ UNCHANGED two
    /\ UNCHANGED <<ndebug, pc, input, stdio, fp, src, osize, heap>>

snd_input_ungetc ==
    /\ pc = "running" /\ input # NoInput
    /\ \E c \in UngetArgs :
       \/ /\ input.ops = BUFFER_OPS
          /\ LET u == snd_input_buffer_ungetc(buffer, c, ndebug)
             IN  /\ buffer' = u.buffer
                 /\ pc' = IF u.aborted THEN "aborted" ELSE "running"
                 /\ last' = [NoCall EXCEPT !.op = "ungetc", !.be = "buffer",
                                !.arg = c, !.ret = u.ret, !.pre = Pos(buffer),
                                !.post = Pos(u.buffer),
                                !.paired = (last.op = "getc" /\ last.be = "buffer"
                                            /\ last.ret # EOF /\ last.ret = c),
                                !.atEof = (last.op = "getc" /\ last.be = "buffer"
                                           /\ last.ret = EOF /\ buffer.ptr > 0
                                           /\ c = buffer.buf[buffer.ptr])]
                 /\ run' = Mixed
                 /\ rew' = RewUnget(rew, c, buffer.buf)
       \/ /\ input.ops = STDIO_OPS
          /\ \E r \in {EOF, c} :
                last' = [NoCall EXCEPT !.op = "ungetc", !.be = "stdio",
                            !.arg = c, !.ret = r]
          /\ UNCHANGED <<buffer, run, pc, rew>>
    /\ prev' = Kept(last)
    /\ UNCHANGED two
    /\ UNCHANGED <<ndebug, input, stdio, fp, src, osize, heap>>

snd_input_scanf ==
    /\ pc = "running" /\ input # NoInput
    /\ \E r \in ScanResults :
       \/ /\ input.ops = BUFFER_OPS
          /\ LET f == snd_input_buffer_scanf(buffer, ndebug, r)
             IN  /\ buffer' = f.buffer
                 /\ pc' = IF f.aborted THEN "aborted" ELSE "running"
                 /\ last' = [NoCall EXCEPT !.op = "scanf", !.be = "buffer",
                                !.ret = f.ret, !.pre = Pos(buffer),
                                !.post = Pos(f.buffer)]
                 /\ run' = Mixed
                 /\ rew' = Broken
       \/ /\ input.ops = STDIO_OPS
          /\ last' = [NoCall EXCEPT !.op = "scanf", !.be = "stdio", !.ret = r]
          /\ UNCHANGED <<buffer, run, pc, rew>>
    /\ prev' = Kept(last)
    /\ UNCHANGED two
    /\ UNCHANGED <<ndebug, input, stdio, fp, src, osize, heap>>

\* a store past str[size - 1] is undefined: the call may run on or the
\* process may die
snd_input_gets ==
    /\ pc = "running" /\ input # NoInput
    /\ \E size \in 0..MaxSize :
       \/ /\ input.ops = BUFFER_OPS
          /\ LET g == snd_input_buffer_gets(buffer, size)
             IN  /\ buffer' = g.buffer
                 /\ last' = [NoCall EXCEPT !.op = "gets", !.be = "buffer",
                                !.arg = size, !.ret = g.ret, !.null = g.null,
                                !.pre = Pos(buffer), !.post = Pos(g.buffer),
                                !.stores = g.stores]
                 /\ run' = RunGets(run, size, g)
                 /\ rew' = RewRead(rew, g.buffer.ptr - buffer.ptr, TRUE)
                 /\ IF Len(g.stores) > size
                    THEN pc' \in {"running", "crashed"}
                    ELSE pc' = pc
       \/ /\ input.ops = STDIO_OPS
          /\ \E isnull \in BOOLEAN :
                last' = [NoCall EXCEPT !.op = "gets", !.be = "stdio",
                            !.arg = size, !.null = isnull]
          /\ UNCHANGED <<buffer, run, pc, rew>>
    /\ prev' = Kept(last)
    /\ UNCHANGED two
    /\ UNCHANGED <<ndebug, input, stdio, fp, src, osize, heap>>

\* err = input->ops->close(input); free(input); return err
snd_input_close ==
    /\ pc = "running" /\ input # NoInput
    /\ \/ /\ input.ops = BUFFER_OPS
          /\ LET c == close_then_free(snd_input_buffer_close)
             IN  /\ last' = [NoCall EXCEPT !.op = "close", !.be = "buffer",
                                !.pre = Pos(buffer), !.ret = c.ret,
                                !.events = c.events]
                 /\ heap' = Live(heap, c.events)
          /\ fp' = fp
       \/ /\ input.ops = STDIO_OPS
          /\ \E fcl \in FcloseResults :
             LET b == snd_input_stdio_close(stdio, fp, fcl)
                 c == close_then_free(b)
             IN  /\ fp' = b.fp
                 /\ last' = [NoCall EXCEPT !.op = "close", !.be = "stdio",
                                !.arg = IF stdio.close THEN 1 ELSE 0,
                                !.ret = c.ret, !.events = c.events]
                 /\ heap' = Live(heap, c.events)
    /\ input' = NoInput
    /\ buffer' = NoBuffer
    /\ stdio' = NoStdio
    /\ src' = <<>>
    /\ osize' = 0
    /\ run' = NoRun
    /\ rew' = NoRew
    /\ prev' = Kept(last)
    /\ UNCHANGED two
    /\ UNCHANGED <<ndebug, pc>>

Next ==
    \/ CallerFopen
    \/ StdioAttach
    \/ StdioOpen
    \/ BufferOpen
    \/ snd_input_getc
    \/ snd_input_ungetc
    \/ snd_input_gets
    \/ snd_input_scanf
    \/ snd_input_close

Spec == Init /\ [][Next]_vars

(***************************************************************************)
(* Several handles open at once.  Each call is made on one handle i and    *)
(* goes through that handle's ops to its own private data.                 *)
(***************************************************************************)
\* a call on handle i that leaves it as `new`, as if the private data were
\* one object shared by the handles of a backend
StoreShared(h, i, new) ==
    [j \in Handles |-> IF j = i \/ h[j].input.ops = new.input.ops
                        THEN new ELSE h[j]]

\* a call on handle i that leaves it as `new`: input and
\* input->private_data are the handle's own
Store(h, i, new) == [h EXCEPT ![i] = new]

TwoMain == <<input, buffer, stdio, src, osize, last, prev, run, heap, rew>>

TwoFopen ==
    /\ pc = "running" /\ fp = "closed"
    /\ fp' = "open"
    /\ UNCHANGED <<ndebug, pc, hs, who>>
    /\ UNCHANGED TwoMain

TwoBufferOpen ==
    /\ pc = "running"
    /\ \E i \in Handles :
          /\ hs[i].input = NoInput
          /\ \E text \in SeqsUpTo(TwoChars, MaxLenTwo), fail \in 0..3 :
             \E size \in OpenSizes(text) :
                hs' = IF buffer_open_allocs(fail).ret < 0 THEN hs
                      ELSE Store(hs, i,
                             [input |-> [type |-> "SND_INPUT_BUFFER", ops |-> BUFFER_OPS],
                              buffer |-> snd_input_buffer_open(Append(text, 0), size),
                              stdio |-> NoStdio])
          /\ who' = [h |-> i, op |-> "open"]
    /\ UNCHANGED <<ndebug, pc, fp>>
    /\ UNCHANGED TwoMain

TwoStdioAttach ==
    /\ pc = "running" /\ fp = "open"
    /\ \E i \in Handles :
          /\ hs[i].input = NoInput
          /\ \E close \in BOOLEAN, fail \in 0..2 :
                LET a == snd_input_stdio_attach(close)
                IN  hs' = IF stdio_attach_allocs(fail).ret < 0 THEN hs
                          ELSE Store(hs, i, [input |-> a.input, buffer |-> NoBuffer,
                                             stdio |-> a.stdio])
          /\ who' = [h |-> i, op |-> "attach"]
    /\ UNCHANGED <<ndebug, pc, fp>>
    /\ UNCHANGED TwoMain

TwoGetc ==
    /\ pc = "running"
    /\ \E i \in Handles :
          /\ hs[i].input # NoInput
          /\ \/ /\ hs[i].input.ops = BUFFER_OPS
                /\ hs' = Store(hs, i, [hs[i] EXCEPT
                                 !.buffer = snd_input_buffer_getc(@).buffer])
             \/ /\ hs[i].input.ops = STDIO_OPS
                /\ hs' = hs
          /\ who' = [h |-> i, op |-> "getc"]
    /\ UNCHANGED <<ndebug, pc, fp>>
    /\ UNCHANGED TwoMain

TwoUngetc ==
    /\ pc = "running"
    /\ \E i \in Handles, c \in UngetArgs :
          /\ hs[i].input # NoInput
          /\ \/ /\ hs[i].input.ops = BUFFER_OPS
                /\ LET u == snd_input_buffer_ungetc(hs[i].buffer, c, ndebug)
                   IN  /\ hs' = Store(hs, i, [hs[i] EXCEPT !.buffer = u.buffer])
                       /\ pc' = IF u.aborted THEN "aborted" ELSE "running"
             \/ /\ hs[i].input.ops = STDIO_OPS
                /\ hs' = hs /\ pc' = pc
          /\ who' = [h |-> i, op |-> "ungetc"]
    /\ UNCHANGED <<ndebug, fp>>
    /\ UNCHANGED TwoMain

TwoGets ==
    /\ pc = "running"
    /\ \E i \in Handles, size \in 0..MaxSize :
          /\ hs[i].input # NoInput
          /\ \/ /\ hs[i].input.ops = BUFFER_OPS
                /\ LET g == snd_input_buffer_gets(hs[i].buffer, size)
                   IN  /\ hs' = Store(hs, i, [hs[i] EXCEPT !.buffer = g.buffer])
                       /\ IF Len(g.stores) > size
                          THEN pc' \in {"running", "crashed"}
                          ELSE pc' = pc
             \/ /\ hs[i].input.ops = STDIO_OPS
                /\ hs' = hs /\ pc' = pc
          /\ who' = [h |-> i, op |-> "gets"]
    /\ UNCHANGED <<ndebug, fp>>
    /\ UNCHANGED TwoMain

TwoScanf ==
    /\ pc = "running"
    /\ \E i \in Handles, r \in ScanResults :
          /\ hs[i].input # NoInput
          /\ \/ /\ hs[i].input.ops = BUFFER_OPS
                /\ LET f == snd_input_buffer_scanf(hs[i].buffer, ndebug, r)
                   IN  /\ hs' = Store(hs, i, [hs[i] EXCEPT !.buffer = f.buffer])
                       /\ pc' = IF f.aborted THEN "aborted" ELSE "running"
             \/ /\ hs[i].input.ops = STDIO_OPS
                /\ hs' = hs /\ pc' = pc
          /\ who' = [h |-> i, op |-> "scanf"]
    /\ UNCHANGED <<ndebug, fp>>
    /\ UNCHANGED TwoMain

TwoClose ==
    /\ pc = "running"
    /\ \E i \in Handles :
          /\ hs[i].input # NoInput
          /\ \/ /\ hs[i].input.ops = BUFFER_OPS
                /\ fp' = fp
             \/ /\ hs[i].input.ops = STDIO_OPS
                /\ \E fcl \in FcloseResults :
                      fp' = snd_input_stdio_close(hs[i].stdio, fp, fcl).fp
          /\ hs' = Store(hs, i, NoHandle)
          /\ who' = [h |-> i, op |-> "close"]
    /\ UNCHANGED <<ndebug, pc>>
    /\ UNCHANGED TwoMain

NextTwo ==
    \/ TwoFopen
    \/ TwoBufferOpen
    \/ TwoStdioAttach
    \/ TwoGetc
    \/ TwoUngetc
    \/ TwoGets
    \/ TwoScanf
    \/ TwoClose

SpecTwo == Init /\ [][NextTwo]_vars

(***************************************************************************)
(* Properties.                                                             *)
(***************************************************************************)
\* the length of the text in mem: the chars before its first NUL
NaturalLen(mem) ==
    Cardinality({k \in 1..Len(mem) : \A i \in 1..k : mem[i] # 0})

\* the length N of the content the caller opened the buffer on
ContentLen == IF osize < 0 THEN NaturalLen(src) ELSE osize

\* the content the caller opened the buffer on, as bytes
Original == [i \in 1..ContentLen |-> ToUChar(src[i])]

IsPrefix(s, t) == Len(s) <= Len(t) /\ \A i \in 1..Len(s) : s[i] = t[i]

Min(a, b) == IF a < b THEN a ELSE b

BufferCall(op) == last.op = op /\ last.be = "buffer"

\* the input a call found unread
UnreadAt(pos) == SubSeq(buffer.buf, pos.ptr + 1, pos.ptr + pos.size)

\* the length of s up to and including its first '\n', Len(s) without one
LineLen(s) ==
    IF \E i \in 1..Len(s) : s[i] = NEWLINE
    THEN CHOOSE i \in 1..Len(s) : s[i] = NEWLINE /\ \A j \in 1..(i - 1) : s[j] # NEWLINE
    ELSE Len(s)

\* the bytes a gets call copied: its stores without the terminating null
Copied(call) == SubSeq(call.stores, 1, Len(call.stores) - 1)

\* C1: on a buffer opened on content of length N (explicit size N, or size
\* -1 on text of length N), the first N getc calls return the original
\* bytes in order and the (N+1)-th returns EOF.  run counts the getc calls
\* since open up to the first EOF and holds the bytes they returned.
C1_ReadAllThenEOF ==
    (input.ops = BUFFER_OPS /\ run.kind = "getc") =>
        /\ run.n <= ContentLen + 1
        /\ Len(run.out) = Min(run.n, ContentLen)
        /\ IsPrefix(run.out, Original)
        /\ run.eof <=> (run.n = ContentLen + 1)

C1_Witness ==
    /\ input.ops = BUFFER_OPS /\ run.kind = "getc" /\ run.eof
    /\ osize = -1 /\ run.out = <<97, 255>>

\* C2: a gets on a buffer that returns non-null copied the longest prefix of
\* the unread input ending at the first newline (inclusive), at size-1
\* bytes or at the end of the buffer, whichever comes first; ptr and size
\* moved by that many bytes and the destination holds those bytes and a
\* terminating null.
C2_LinePrefix ==
    (BufferCall("gets") /\ ~last.null) =>
        LET unread == UnreadAt(last.pre)
            k == Min(LineLen(unread), last.arg - 1)
        IN  /\ last.stores = SubSeq(unread, 1, k) \o <<0>>
            /\ last.post.ptr = last.pre.ptr + k
            /\ last.post.size = last.pre.size - k

\* C3: a gets on a buffer that copied at least one byte returns the
\* destination pointer the caller passed (offset 0 from str).
C3_ReturnsDest ==
    (BufferCall("gets") /\ Len(Copied(last)) >= 1) =>
        ~last.null /\ last.ret = 0

\* C4: with a byte remaining, c = getc(); ungetc(c); getc(): the ungetc
\* returns c and restores ptr and size to their values before the first
\* getc, and the second getc returns c again.
C4_GetcUngetcGetc ==
    /\ (BufferCall("ungetc") /\ last.paired) =>
          /\ pc = "running"
          /\ last.ret = last.arg
          /\ prev.op = "getc" /\ prev.ret = last.arg
          /\ last.post = prev.pre
          /\ Pos(buffer) = prev.pre
    /\ (BufferCall("getc") /\ prev.op = "ungetc" /\ prev.paired) =>
          last.ret = prev.arg

C4_Witness ==
    /\ BufferCall("getc") /\ prev.op = "ungetc" /\ prev.paired
    /\ last.ret = 255 /\ last.pre.ptr = 1

\* C5: closing a handle made by snd_input_stdio_attach(fp, close) closes fp
\* if and only if close was true.
C5_CloseFlagDecides ==
    (last.op = "close" /\ last.be = "stdio") =>
        (fp = "closed" <=> last.arg = 1)

\* C6: gets on a buffer returns NULL exactly when no byte remained at
\* entry.
C6_NullIffNothingLeft ==
    BufferCall("gets") => (last.null <=> last.pre.size = 0)

\* C7: gets(str, size) on a buffer stores nothing outside str[0..size-1]:
\* it copies at most size-1 bytes, and with size 0 or 1 it copies no byte.
C7_StaysInDest ==
    BufferCall("gets") =>
        /\ Len(last.stores) <= last.arg
        /\ last.pre.size - last.post.size <= IF last.arg = 0 THEN 0 ELSE last.arg - 1

\* C8: ungetc on a buffer whose ptr is at the start of the array returns
\* EOF for every c, an empty buffer included, and leaves ptr and size
\* alone.
C8_UngetcAtStart ==
    (BufferCall("ungetc") /\ last.pre.ptr = 0) =>
        /\ last.ret = EOF
        /\ last.post = last.pre
        /\ Pos(buffer) = last.pre
        /\ pc = "running"

C8_Witness ==
    /\ BufferCall("ungetc") /\ last.pre.ptr = 0 /\ last.pre.size >= 1
    /\ ToUChar(last.arg) = buffer.buf[1]

\* C9: gets on a buffer with no byte remaining returns NULL, stores nothing
\* in the destination (no terminating null either) and leaves ptr and size
\* alone, whatever the size.
C9_GetsAtEnd ==
    (BufferCall("gets") /\ last.pre.size = 0) =>
        /\ last.null
        /\ last.stores = <<>>
        /\ last.post = last.pre
        /\ Pos(buffer) = last.pre

C9_Witness ==
    /\ BufferCall("gets") /\ last.pre.size = 0 /\ last.pre.ptr >= 2
    /\ last.arg = 0

\* C10: gets calls with one size >= 2, from open on, cut the content into
\* consecutive pieces: each non-null call delivers a piece that ends at its
\* only newline, or fills size-1 bytes, or reaches the end of the content;
\* the pieces delivered so far are a prefix of the content, all of it once
\* NULL is returned; and NULL comes by call N+1 at the latest.  run counts
\* the calls up to the first NULL.
C10_LinesPartition ==
    (input.ops = BUFFER_OPS /\ run.kind = "gets" /\ run.size >= 2) =>
        /\ IsPrefix(run.out, Original)
        /\ buffer.ptr = Len(run.out)
        /\ run.eof => run.out = Original
        /\ run.n <= ContentLen + 1
        /\ (BufferCall("gets") /\ ~last.null) =>
              LET piece == Copied(last)
                  n == Len(piece)
              IN  /\ n >= 1
                  /\ \A i \in 1..(n - 1) : piece[i] # NEWLINE
                  /\ \/ piece[n] = NEWLINE
                     \/ n = run.size - 1
                     \/ last.post.size = 0

C10_Witness ==
    /\ input.ops = BUFFER_OPS /\ run.kind = "gets" /\ run.size = 3
    /\ run.eof /\ run.n = 3 /\ run.out = <<97, NEWLINE, 97>>

\* C11: a getc on a buffer that returns EOF leaves ptr and size alone and
\* the getc after it returns EOF again; after EOF on a non-empty buffer an
\* ungetc of the last byte succeeds (returns it, ptr back by one, one byte
\* left) and the getc after that returns the byte.
C11_EofIsStable ==
    /\ (BufferCall("getc") /\ last.ret = EOF) =>
          /\ last.pre.size = 0
          /\ last.post = last.pre
          /\ Pos(buffer) = last.pre
    /\ (BufferCall("getc") /\ prev.op = "getc" /\ prev.ret = EOF) =>
          last.ret = EOF
    /\ (BufferCall("ungetc") /\ last.atEof) =>
          /\ last.pre.ptr > 0 /\ last.arg = buffer.buf[last.pre.ptr]
          /\ pc = "running"
          /\ last.ret = last.arg
          /\ last.post = [ptr |-> last.pre.ptr - 1, size |-> 1]
          /\ Pos(buffer) = last.post
    /\ (BufferCall("getc") /\ prev.op = "ungetc" /\ prev.atEof) =>
          last.ret = prev.arg

C11_Witness ==
    /\ BufferCall("getc") /\ prev.op = "ungetc" /\ prev.atEof
    /\ prev.pre.ptr = 2 /\ prev.arg = buffer.buf[prev.pre.ptr]
    /\ last.ret = 255

\* the places in the events of a call where it does act to obj
Where(events, act, obj) ==
    {i \in 1..Len(events) : events[i].act = act /\ events[i].obj = obj}

\* the allocations a handle of backend be owns
Owned(be) ==
    IF be = "buffer" THEN {"input", "buffer", "buf"} ELSE {"input", "stdio"}

\* the private data of backend be
Private(be) == IF be = "buffer" THEN "buffer" ELSE "stdio"

\* C12: snd_input_close runs the backend's close, which frees the backend
\* state (for a buffer the array before the struct), and then frees the
\* handle; every allocation the handle owns is freed exactly once and is
\* neither read nor freed after that, nothing stays live, and the value
\* returned is the one the backend's close returned.
C12_CloseFreesOnce ==
    (last.op = "close") =>
        LET ev == last.events
            freeOf(o) == Where(ev, "free", o)
            at(o) == CHOOSE i \in freeOf(o) : TRUE
            back == Where(ev, "return", "close")
        IN  /\ \A o \in Owned(last.be) : Cardinality(freeOf(o)) = 1
            /\ \A i \in 1..Len(ev) : ev[i].act = "free" => ev[i].obj \in Owned(last.be)
            /\ \A i \in 1..Len(ev) : \A j \in (i + 1)..Len(ev) :
                  ev[i].act = "free" => ev[j].obj # ev[i].obj
            /\ last.be = "buffer" => at("buf") < at("buffer")
            /\ Cardinality(back) = 1
            /\ \A r \in back : /\ at(Private(last.be)) < r
                               /\ r < at("input")
                               /\ last.ret = ev[r].val
            /\ heap = {}
            /\ input = NoInput

C12_Witness ==
    /\ last.op = "close" /\ last.be = "buffer" /\ last.pre.ptr = 2
    /\ Where(last.events, "free", "buf") # {} /\ heap = {}

\* C13: closing a stdio handle returns what fclose returned (0 or a
\* negative error) when the close flag is set and 0 when it is not; an
\* fclose that fails shows as a negative result of snd_input_close.
C13_CloseStatus ==
    (last.op = "close" /\ last.be = "stdio") =>
        LET fc == Where(last.events, "fclose", "fp")
        IN  IF last.arg = 1
            THEN \A i \in fc : IF last.events[i].val = 0
                               THEN last.ret = 0 ELSE last.ret < 0
            ELSE last.ret = 0

\* C14: in snd_input_buffer_open and snd_input_stdio_attach an allocation
\* that fails gives -ENOMEM, with every allocation made earlier in the call
\* freed (once) and no handle stored through inputp; on success exactly the
\* backend struct, the handle and (for a buffer) the array are live and
\* the handle is stored.
C14_AllocUnwinds ==
    (last.op \in {"open", "attach"}) =>
        LET ev == last.events
            failed == \E i \in 1..Len(ev) : ev[i].act = "fail"
        IN  /\ failed <=> last.ret # 0
            /\ failed =>
                  /\ last.ret = -ENOMEM
                  /\ input = NoInput
                  /\ heap = {}
                  /\ \A i \in 1..Len(ev) : ev[i].act = "alloc" =>
                        Cardinality({j \in (i + 1)..Len(ev) :
                            ev[j].act = "free" /\ ev[j].obj = ev[i].obj}) = 1
            /\ ~failed =>
                  /\ heap = Owned(last.be)
                  /\ \A i \in 1..Len(ev) : ev[i].act = "alloc"
                  /\ input.ops = IF last.be = "buffer" THEN BUFFER_OPS ELSE STDIO_OPS

C14_Witness ==
    /\ last.op = "open" /\ last.ret = -ENOMEM
    /\ Where(last.events, "fail", "buf") # {}
    /\ Where(last.events, "free", "input") # {}

\* C15: snd_input_stdio_open returns a negative error and gives no handle
\* when fopen fails; when fopen succeeds and the attach fails the stream
\* is closed again before the error is returned; when both succeed the
\* handle holds the stream with its close flag set.
C15_OpenPath ==
    (last.op = "stdio_open") =>
        LET ev == last.events
            opened == Where(ev, "fopen", "fp")
            closed == Where(ev, "fclose", "fp")
        IN  /\ opened = {} =>
                  /\ last.ret < 0 /\ last.ret \in {-e : e \in Errnos}
                  /\ input = NoInput /\ fp = "closed" /\ heap = {}
            /\ (opened # {} /\ last.ret # 0) =>
                  /\ last.ret = -ENOMEM
                  /\ input = NoInput /\ heap = {}
                  /\ fp = "closed"
                  /\ Cardinality(closed) = 1
                  /\ \A i \in opened : \A j \in closed : i < j
            /\ last.ret = 0 =>
                  /\ opened # {} /\ closed = {}
                  /\ input.ops = STDIO_OPS /\ input.type = "SND_INPUT_STDIO"
                  /\ stdio.close
                  /\ fp = "open"
                  /\ heap = Owned("stdio")

C15_Witness ==
    /\ last.op = "stdio_open" /\ last.ret = -ENOMEM
    /\ Where(last.events, "fail", "input") # {} /\ fp = "closed"

\* C16: snd_input_scanf on a buffer handle always fails loudly (the
\* assert stops the process): it never returns to the caller with ptr and
\* size where they were.
C16_ScanfFailsLoudly ==
    BufferCall("scanf") => pc = "aborted"

\* C17: an ungetc(c) on a buffer with ptr past the start succeeds (returns
\* c, ptr back by one, size up by one) only when the byte before ptr is c;
\* with another c it stops the process and returns nothing.
C17_UngetcChecksByte ==
    (BufferCall("ungetc") /\ last.pre.ptr > 0) =>
        IF buffer.buf[last.pre.ptr] = ToUChar(last.arg)
        THEN /\ pc = "running"
             /\ last.ret = last.arg
             /\ last.post = [ptr |-> last.pre.ptr - 1, size |-> last.pre.size + 1]
        ELSE pc = "aborted"

\* C18: on a buffer handle over content of length N, after any calls of
\* getc, ungetc and gets that returned, 0 <= size <= N, ptr is within
\* [buf, buf + N], (ptr - buf) + size = N, and the array still holds the
\* content and its terminating null.
C18_BufferInvariant ==
    (input.ops = BUFFER_OPS /\ pc = "running") =>
        /\ buffer.size \in 0..ContentLen
        /\ buffer.ptr \in 0..ContentLen
        /\ buffer.ptr + buffer.size = ContentLen
        /\ buffer.buf = Original \o <<0>>

C18_Witness ==
    /\ input.ops = BUFFER_OPS /\ pc = "running" /\ run.kind = "mixed"
    /\ BufferCall("gets") /\ last.pre.ptr = 1 /\ last.post.ptr = 3
    /\ ContentLen = 3

\* C20: push-back on a buffer goes back further than one character: after
\* reads (getc or gets) that consumed k bytes in all, k ungetc calls giving
\* those bytes in reverse order all succeed, the k-th leaving ptr and size
\* as they were at open, and the ungetc after them returns EOF.  rew holds k
\* and the number of push-backs made so far.
C20_PushBackAll ==
    /\ (input.ops = BUFFER_OPS /\ rew.phase = "reading") => rew.k = buffer.ptr
    /\ rew.phase = "rewinding" =>
          /\ BufferCall("ungetc")
          /\ pc = "running"
          /\ last.ret = last.arg
          /\ rew.undone <= rew.k
          /\ Pos(buffer) = [ptr |-> rew.k - rew.undone,
                            size |-> ContentLen - (rew.k - rew.undone)]
    /\ rew.phase = "over" =>
          /\ BufferCall("ungetc")
          /\ pc = "running"
          /\ last.ret = EOF
          /\ Pos(buffer) = [ptr |-> 0, size |-> ContentLen]

C20_Witness ==
    /\ rew.phase = "over" /\ rew.k = 3 /\ rew.undone = 3 /\ rew.lines
    /\ last.arg = 97

\* the type tag, the ops and the private data of a handle fit together
Consistent(h) ==
    \/ h = NoHandle
    \/ /\ h.input = [type |-> "SND_INPUT_BUFFER", ops |-> BUFFER_OPS]
       /\ h.stdio = NoStdio
    \/ /\ h.input = [type |-> "SND_INPUT_STDIO", ops |-> STDIO_OPS]
       /\ h.buffer = NoBuffer

\* C19: with several handles open, a call on one handle (open, getc,
\* ungetc, gets, scanf, close) leaves the type, ops, ptr, size and content
\* of every other handle as they were; the constructor sets type and ops of
\* a handle to those of one backend and they stay so until it is closed.
C19_HandlesIndependent ==
    /\ [](\A i \in Handles : Consistent(hs[i]))
    /\ [][\A i \in Handles :
            /\ who'.h # i => hs'[i] = hs[i]
            /\ (hs[i].input # NoInput /\ ~(who'.h = i /\ who'.op = "close"))
                  => hs'[i].input = hs[i].input]_vars

C19_Witness ==
    /\ who = [h |-> 1, op |-> "gets"]
    /\ hs[1].input.ops = BUFFER_OPS /\ hs[1].buffer.ptr = 2
    /\ hs[2].input.ops = BUFFER_OPS /\ hs[2].buffer.ptr = 1
    /\ hs[2].buffer.size = 1
    /\ pc = "running"

=============================================================================
